---- MODULE Spec2Model ----
(***************************************************************************)
(* A model of cnv_tools: the table normalizer (copy_number_preprocess,     *)
(* cnv_preprocess), the region-aggregate reducer and the comparator        *)
(* operations of CopyNumberWindow and CopyNumberChromosome, the layout of  *)
(* manhattan_plot and the traces of ManhattanPlot.cnv_line_traces.         *)
(*                                                                         *)
(* A table is a record [err, cols, rows]: cols is the sequence of column   *)
(* names, rows a sequence of functions from column name to value, and err  *)
(* the error the polars plan ends with ("none" when it evaluates).         *)
(* A chromosome label is a sequence of one-character strings, so that      *)
(* starts_with and str.replace are computed, not assumed.                  *)
(* A copy number is an integer count of ticks: Scale ticks make 1.0, and   *)
(* the values a Float32 holds are the multiples of F32Step ticks.          *)
(* A lazy table stands as the table its plan evaluates to, with the error  *)
(* the plan ends with; a call made on an eager table raises that error.    *)
(* Each call is made once, from the idle state, on inputs drawn from the   *)
(* sets of "the inputs" below.                                             *)
(***************************************************************************)
EXTENDS Integers, Sequences, FiniteSets, TLC

VARIABLES op, arg, ret, after

vars == <<op, arg, ret, after>>

(* ------------------------------ bounds ------------------------------- *)

\* largest number of rows of an input table
MaxRows == 2

\* largest number of tables handed to mean
MaxN == 3

\* largest number of rows of a table handed to mean
MaxMeanRows == 1

\* largest number of windows of a table handed to the reducer
MaxWindows == 3

\* largest number of CNV segments handed to cnv_line_traces
MaxSegments == 1

\* largest integer of a sequence handed to integers_to_intervals
MaxInteger == 9

\* largest number of y-values handed to normal_chr_copy_number
MaxY == 5

\* largest number of collect() and lazy() calls made on one object
MaxCalls == 3

(* ------------------------------ numbers ------------------------------ *)

\* ticks between two neighbouring Float32 values (pl.Float32)
F32Step == 4

\* ticks per 1.0
Scale == 24 * F32Step

\* nearest integer to a / n for n > 0, ties to the even integer
RoundDivEven(a, n) ==
    LET q == a \div n
        r == a % n
    IN  IF 2 * r < n THEN q
        ELSE IF 2 * r > n THEN q + 1
        ELSE IF q % 2 = 0 THEN q ELSE q + 1

\* Expr.round(0).cast(pl.Int32): ticks to the nearest integer copy number
Round0(x) == RoundDivEven(x, Scale)

\* cast(pl.Float32): the nearest value a Float32 holds
CastFloat32(x) == F32Step * RoundDivEven(x, F32Step)

\* Float32 series / int: the quotient, rounded to a Float32
F32Div(x, n) == F32Step * RoundDivEven(x, n * F32Step)

(* ------------------------------ strings ------------------------------ *)

Digit(d) == <<"0", "1", "2", "3", "4", "5", "6", "7", "8", "9">>[d + 1]

\* str(x) for 0 <= x < 100
Str(n) == IF n < 10 THEN <<Digit(n)>> ELSE <<Digit(n \div 10), Digit(n % 10)>>

\* CopyNumber.CHROMOSOME_NAMES: "1".."22", "X", "Y"
CHROMOSOME_NAMES == [i \in 1..22 |-> Str(i)] \o << <<"X">>, <<"Y">> >>

ChromosomeNameSet == {CHROMOSOME_NAMES[i] : i \in 1..Len(CHROMOSOME_NAMES)}

\* Series.str.starts_with(prefix)
StartsWith(s, p) == Len(s) >= Len(p) /\ SubSeq(s, 1, Len(p)) = p

\* Expr.str.replace(pattern, value): the first occurrence of pattern only
StrReplace(s, pat, val) ==
    LET hits == {i \in 1..(Len(s) - Len(pat) + 1) : SubSeq(s, i, i + Len(pat) - 1) = pat}
    IN  IF hits = {} THEN s
        ELSE LET i == CHOOSE j \in hits : \A k \in hits : j <= k
             IN  SubSeq(s, 1, i - 1) \o val \o SubSeq(s, i + Len(pat), Len(s))

DigitValue(c) == CHOOSE d \in 0..9 : Digit(d) = c

IsDigits(s) == Len(s) > 0 /\ \A i \in 1..Len(s) : \E d \in 0..9 : Digit(d) = s[i]

RECURSIVE ParseInt(_)
\* cast(pl.Int8) of a string of decimal digits
ParseInt(s) == IF Len(s) = 0 THEN 0
               ELSE 10 * ParseInt(SubSeq(s, 1, Len(s) - 1)) + DigitValue(s[Len(s)])

\* the sort key pl.col("chr").replace({"X": "23", "Y": "24"}).cast(pl.Int8)
ChrSortKey(chr) ==
    LET replaced == IF chr = <<"X">> THEN <<"2", "3">>
                    ELSE IF chr = <<"Y">> THEN <<"2", "4">>
                    ELSE chr
    IN  IF IsDigits(replaced) THEN ParseInt(replaced) ELSE -1

(* ------------------------------ frames ------------------------------- *)

Range(f) == {f[i] : i \in DOMAIN f}

ColSet(F) == {F.cols[i] : i \in 1..Len(F.cols)}

Fail(F, e) == [F EXCEPT !.err = e, !.cols = <<>>, !.rows = <<>>]

Ok(F) == F.err = "none"

\* LazyFrame.rename({a: b})
Rename(F, a, b) ==
    IF ~Ok(F) THEN F
    ELSE IF a \notin ColSet(F) THEN Fail(F, "ColumnNotFoundError")
    ELSE IF a = b THEN F
    ELSE IF b \in ColSet(F) THEN Fail(F, "DuplicateError")
    ELSE [err  |-> "none",
          cols |-> [i \in 1..Len(F.cols) |-> IF F.cols[i] = a THEN b ELSE F.cols[i]],
          rows |-> [i \in 1..Len(F.rows) |->
                      [c \in (ColSet(F) \ {a}) \cup {b} |->
                          IF c = b THEN F.rows[i][a] ELSE F.rows[i][c]]]]

\* LazyFrame.with_columns(expr.alias(name)): expr reads the columns refs, and
\* series holds its value row by row
WithColumn(F, name, refs, series) ==
    IF ~Ok(F) THEN F
    ELSE IF ~(refs \subseteq ColSet(F)) THEN Fail(F, "ColumnNotFoundError")
    ELSE [err  |-> "none",
          cols |-> IF name \in ColSet(F) THEN F.cols ELSE Append(F.cols, name),
          rows |-> [i \in 1..Len(F.rows) |->
                      [c \in ColSet(F) \cup {name} |->
                          IF c = name THEN series[i] ELSE F.rows[i][c]]]]

\* LazyFrame.cast({name: dtype}) to the dtype the column's values already have
\* (pl.String, pl.Int32, pl.Int64, pl.Categorical): the column must exist
CastColumn(F, name) ==
    IF ~Ok(F) THEN F
    ELSE IF name \notin ColSet(F) THEN Fail(F, "ColumnNotFoundError")
    ELSE F

\* the sequence f as a tuple of its members
AsTuple(f) == f \o <<>>

\* the rows at the positions kept, in their order
KeepRows(rows, kept) ==
    LET At(k) == CHOOSE i \in kept : Cardinality({j \in kept : j <= i}) = k
    IN  AsTuple([k \in 1..Cardinality(kept) |-> rows[At(k)]])

RowOrders(n) == {p \in [1..n -> 1..n] : \A i, j \in 1..n : p[i] = p[j] => i = j}

(* --------------------------- the normalizer -------------------------- *)

\* start_col=None, end_col=None
NoneCol == "None"

LowerPrefix == <<"c", "h", "r">>

UpperPrefix == <<"C", "h", "r">>

\* the detection with any() in place of all()
AnyStartsWith(F, chr_col, prefix) ==
    \E v \in {F.rows[i][chr_col] : i \in 1..Len(F.rows)} : StartsWith(v, prefix)

\* chr_col_unique_series.str.starts_with(prefix).all()
AllStartWith(F, chr_col, prefix) ==
    \A v \in {F.rows[i][chr_col] : i \in 1..Len(F.rows)} : StartsWith(v, prefix)

\* with_columns(pl.col(chr_col).str.replace(prefix, "").alias(chr_col)).rename({chr_col: "chr"})
StripPrefix(F, chr_col, prefix) ==
    Rename(WithColumn(F, chr_col, {chr_col},
                      [i \in 1..Len(F.rows) |-> StrReplace(F.rows[i][chr_col], prefix, <<>>)]),
           chr_col, "chr")

\* the chromosome column: an `if` for "chr", then an `if`/`else` for "Chr", both
\* deciding on the labels of the input
RenameChromosome(F, chr_col) ==
    LET lower == AllStartWith(F, chr_col, LowerPrefix)
        upper == AllStartWith(F, chr_col, UpperPrefix)
        F1    == IF lower THEN StripPrefix(F, chr_col, LowerPrefix) ELSE F
    IN  IF upper THEN StripPrefix(F1, chr_col, UpperPrefix)
        ELSE Rename(F1, chr_col, "chr")

\* cnv_preprocess: start and end are always renamed
RenameStartEnd(F, start_col, end_col) ==
    LET F1 == Rename(F, start_col, "start")
    IN  IF end_col = start_col
        THEN WithColumn(F1, "end", {"start"}, [i \in 1..Len(F1.rows) |-> F1.rows[i]["start"]])
        ELSE Rename(F1, end_col, "end")

\* copy_number_preprocess: start and end only when both are given
RenameStartEndOptional(F, start_col, end_col) ==
    IF start_col # NoneCol /\ end_col # NoneCol
    THEN RenameStartEnd(F, start_col, end_col)
    ELSE F

\* rename to copy_number and derive integer_copy_number from it
DeriveIntegerCopyNumber(F, copy_number_col) ==
    LET F1 == Rename(F, copy_number_col, "copy_number")
    IN  WithColumn(F1, "integer_copy_number", {"copy_number"},
                   [i \in 1..Len(F1.rows) |-> Round0(F1.rows[i]["copy_number"])])

\* cast(copy_number_lf_schema): start and end are in the schema only when both
\* columns are given
CastSchema(F, start_col, end_col) ==
    LET F1 == CastColumn(F, "chr")
        F2 == WithColumn(F1, "copy_number", {"copy_number"},
                         [i \in 1..Len(F1.rows) |-> CastFloat32(F1.rows[i]["copy_number"])])
        F3 == CastColumn(F2, "integer_copy_number")
    IN  IF start_col # NoneCol /\ end_col # NoneCol
        THEN CastColumn(CastColumn(F3, "start"), "end")
        ELSE F3

\* a filter that keeps every row
KeepEveryRow(r) == TRUE

\* pl.col("chr").is_in(cls.CHROMOSOME_NAMES)
IsCanonical(r) == r["chr"] \in ChromosomeNameSet

\* a sort on start alone
StartOnlyLessEq(a, b) == a["start"] <= b["start"]

\* the sort keys [chr as Int8, pl.col("start")], ascending
SortKeyLessEq(a, b) ==
    \/ ChrSortKey(a["chr"]) < ChrSortKey(b["chr"])
    \/ ChrSortKey(a["chr"]) = ChrSortKey(b["chr"]) /\ a["start"] <= b["start"]

\* the orders of rows the sort may deliver: maintain_order is left at False, so
\* rows that tie on the keys come out in any order
SortOutcomes(rows) ==
    LET n == Len(rows)
        before == AsTuple([i \in 1..n |-> {j \in 1..n : SortKeyLessEq(rows[j], rows[i])}])
        At(k) == CHOOSE i \in 1..n : Cardinality(before[i]) = k
    IN  IF \A i, j \in 1..n : (i # j) => ~(i \in before[j] /\ j \in before[i])
        THEN {AsTuple([k \in 1..n |-> rows[At(k)]])}
        ELSE {s \in {[i \in 1..n |-> rows[p[i]]] : p \in RowOrders(n)} :
                 \A i \in 1..(n - 1) : SortKeyLessEq(s[i], s[i + 1])}

\* filter(pl.col("chr").is_in(...))
FilterCanonical(F) ==
    IF ~Ok(F) THEN F
    ELSE IF "chr" \notin ColSet(F) THEN Fail(F, "ColumnNotFoundError")
    ELSE [F EXCEPT !.rows = KeepRows(F.rows, {i \in 1..Len(F.rows) : IsCanonical(F.rows[i])})]

\* filter(...).sort([...]): the sort reads the column start whatever the mode
FilterSort(F) ==
    LET F1 == FilterCanonical(F)
    IN  IF ~Ok(F1) THEN {F1}
        ELSE IF "start" \notin ColSet(F1) THEN {Fail(F1, "ColumnNotFoundError")}
        ELSE {[F1 EXCEPT !.rows = s] : s \in SortOutcomes(F1.rows)}

\* what a call hands back: an eager input is collected, so a failing plan raises;
\* a lazy input gets its plan back and fails when it is collected
Returned(F, kind) ==
    [kind |-> kind, raised |-> (kind = "eager" /\ ~Ok(F)),
     err |-> F.err, cols |-> F.cols, rows |-> F.rows]

Raised(e) ==
    [kind |-> "none", raised |-> TRUE, err |-> e, cols |-> <<>>, rows |-> <<>>]

Frame(t) == [err |-> t.err, cols |-> t.cols, rows |-> t.rows]

\* CopyNumber.copy_number_preprocess: the set of tables the call may return
CopyNumberPreprocess(data, chr_col, start_col, end_col, copy_number_col) ==
    IF chr_col \notin ColSet(data) THEN {Raised("ColumnNotFoundError")}
    ELSE LET F1 == RenameChromosome(Frame(data), chr_col)
             F2 == RenameStartEndOptional(F1, start_col, end_col)
             F3 == DeriveIntegerCopyNumber(F2, copy_number_col)
             F4 == CastSchema(F3, start_col, end_col)
         IN  {Returned(F, data.kind) : F \in FilterSort(F4)}

\* a mapping that takes every value other than gain_value for a loss
MapCnvTypeLenient(v, gain_value, loss_value) ==
    IF v = gain_value THEN "gain" ELSE "loss"

\* replace_strict({gain_value: "gain", loss_value: "loss"}) of one value
MapCnvType(v, gain_value, loss_value) ==
    IF v = gain_value THEN "gain" ELSE IF v = loss_value THEN "loss" ELSE "unmapped"

\* rename to cnv_type and map it strictly: a value outside the mapping fails
ReplaceStrict(F, cnv_type_col, gain_value, loss_value) ==
    LET F0 == Rename(F, cnv_type_col, "cnv_type")
        F1 == WithColumn(F0, "cnv_type", {"cnv_type"},
                         [i \in 1..Len(F0.rows) |->
                             MapCnvType(F0.rows[i]["cnv_type"], gain_value, loss_value)])
    IN  IF Ok(F1) /\ \E i \in 1..Len(F1.rows) : F1.rows[i]["cnv_type"] = "unmapped"
        THEN Fail(F1, "InvalidOperationError")
        ELSE F1

\* CopyNumber.cnv_preprocess: the set of tables the call may return
CnvPreprocess(data, chr_col, start_col, end_col, cnv_type_col, gain_value, loss_value) ==
    IF chr_col \notin ColSet(data) THEN {Raised("ColumnNotFoundError")}
    ELSE LET F1 == RenameChromosome(Frame(data), chr_col)
             F2 == RenameStartEnd(F1, start_col, end_col)
             F3 == ReplaceStrict(F2, cnv_type_col, gain_value, loss_value)
             F4 == CastColumn(CastColumn(CastColumn(CastColumn(F3,
                       "chr"), "start"), "end"), "cnv_type")
         IN  {Returned(F, data.kind) : F \in FilterSort(F4)}

(* ------------------- the reducer and the comparator ------------------ *)

RECURSIVE SumSeq(_)
SumSeq(f) == IF f = <<>> THEN 0 ELSE Head(f) + SumSeq(Tail(f))

\* DataFrame.with_columns(name=series): the series must have the frame's height
WithSeries(F, name, series) ==
    IF ~Ok(F) THEN F
    ELSE IF Len(series) # Len(F.rows) THEN Fail(F, "ShapeError")
    ELSE [err  |-> "none",
          cols |-> IF name \in ColSet(F) THEN F.cols ELSE Append(F.cols, name),
          rows |-> [i \in 1..Len(F.rows) |->
                      [c \in ColSet(F) \cup {name} |->
                          IF c = name THEN series[i] ELSE F.rows[i][c]]]]

\* select(cols)
Select(F, cols) ==
    IF ~Ok(F) THEN F
    ELSE IF ~(Range(cols) \subseteq ColSet(F)) THEN Fail(F, "ColumnNotFoundError")
    ELSE [err  |-> "none", cols |-> cols,
          rows |-> [i \in 1..Len(F.rows) |-> [c \in Range(cols) |-> F.rows[i][c]]]]

\* a reducer that takes the first window of a chromosome for its mean
GroupFirst(values) == values[1]

\* group_by("chr").mean() of one group's copy_number values, a Float32
GroupMean(values) == F32Div(SumSeq(values), Len(values))

\* CopyNumber.chromosome_copy_number: one row per chr in order of first
\* appearance, the mean of its copy numbers, and the rounding of that mean
ChromosomeCopyNumber(data) ==
    LET F      == Select(Frame(data), <<"chr", "copy_number">>)
        firsts == {i \in 1..Len(F.rows) :
                      \A j \in 1..(i - 1) : F.rows[j]["chr"] # F.rows[i]["chr"]}
        At(k)  == CHOOSE i \in firsts : Cardinality({j \in firsts : j <= i}) = k
        Group(chr) == KeepRows(F.rows, {i \in 1..Len(F.rows) : F.rows[i]["chr"] = chr})
        Mean(chr)  == GroupMean([i \in 1..Len(Group(chr)) |-> Group(chr)[i]["copy_number"]])
        G == IF ~Ok(F) THEN F
             ELSE [F EXCEPT !.rows = [k \in 1..Cardinality(firsts) |->
                      [chr |-> F.rows[At(k)]["chr"],
                       copy_number |-> Mean(F.rows[At(k)]["chr"])]]]
    IN  Returned(WithColumn(G, "integer_copy_number", {"copy_number"},
                            [k \in 1..Len(G.rows) |-> Round0(G.rows[k]["copy_number"])]),
                 data.kind)

\* CopyNumberWindow.__init__: the objects the constructor may build; an object
\* whose data is raised stands for the exception leaving the constructor
CopyNumberWindowInit(data, chr_col, start_col, end_col, copy_number_col) ==
    {[class |-> "CopyNumberWindow", data |-> r] :
        r \in CopyNumberPreprocess(data, chr_col, start_col, end_col, copy_number_col)}

\* CopyNumberChromosome.__init__: preprocess, then reduce to chromosomes
CopyNumberChromosomeInit(data, chr_col, start_col, end_col, copy_number_col) ==
    {[class |-> "CopyNumberChromosome",
      data  |-> IF r.raised THEN r ELSE ChromosomeCopyNumber(r)] :
        r \in CopyNumberPreprocess(data, chr_col, start_col, end_col, copy_number_col)}

\* the methods CopyNumber declares abstract
AbstractMethods ==
    {"__init__", "region_consistency_check", "accuracy_score", "recall_score",
     "precision_score", "difference_std", "mean"}

\* the methods the class Cnv defines
CnvMethods ==
    {"__init__", "region_consistency_check", "accuracy_score", "recall_score",
     "precision_score", "difference_std"}

\* Cnv(...): a class that leaves an abstract method undefined cannot be
\* instantiated; otherwise __init__ sets data to the result of cnv_preprocess
CnvInit(data, chr_col, start_col, end_col, cnv_type_col, gain_value, loss_value) ==
    IF ~(AbstractMethods \subseteq CnvMethods)
    THEN {[class |-> "Cnv", data |-> Raised("TypeError")]}
    ELSE {[class |-> "Cnv", data |-> r] :
             r \in CnvPreprocess(data, chr_col, start_col, end_col, cnv_type_col,
                                  gain_value, loss_value)}

\* a window comparison that leaves end out
RegionColsNoEnd(class) ==
    IF class = "CopyNumberWindow" THEN <<"chr", "start">> ELSE <<"chr">>

\* the region columns a class compares
RegionCols(class) ==
    IF class = "CopyNumberWindow" THEN <<"chr", "start", "end">> ELSE <<"chr">>

\* a check that also demands that no copy number of x exceeds that of y
RegionConsistencyCheckOrdered(class, x, y) ==
    LET xr == Select(Frame(x.data), RegionCols(class))
        yr == Select(Frame(y.data), RegionCols(class))
    IN  /\ xr.cols = yr.cols /\ xr.rows = yr.rows
        /\ \A k \in 1..Len(x.data.rows) :
              x.data.rows[k]["copy_number"] <= y.data.rows[k]["copy_number"]

\* region_consistency_check: DataFrame.equals of the two region selections
RegionConsistencyCheck(class, x, y) ==
    LET xr == Select(Frame(x.data), RegionCols(class))
        yr == Select(Frame(y.data), RegionCols(class))
    IN  xr.cols = yr.cols /\ xr.rows = yr.rows

RaisedError(e, pair) == [status |-> "raise", err |-> e, pair |-> pair]

\* whether the ValueError of a class's mean names the index pair
MeanNamesPair(class) == class = "CopyNumberWindow"

\* the columns mean adds to the first table before it rebuilds the object: the
\* window class adds copy_number_integer for a lazy first table, the chromosome
\* class for an eager one
MeanAddsRounded(class, kind) ==
    IF class = "CopyNumberWindow" THEN kind = "lazy" ELSE kind = "eager"

\* mean of a class: the consecutive-pair check, the elementwise mean of the
\* copy_number columns, and a new object built from the first table
Mean(class, copy_numbers) ==
    LET data_number == Len(copy_numbers)
        bad   == {i \in 1..(data_number - 1) :
                     ~RegionConsistencyCheck(class, copy_numbers[i], copy_numbers[i + 1])}
        first == copy_numbers[1].data
        cn(i) == [k \in 1..Len(copy_numbers[i].data.rows) |->
                     F32Div(copy_numbers[i].data.rows[k]["copy_number"], data_number)]
        copy_number_mean ==
            [k \in 1..Len(first.rows) |-> SumSeq([i \in 1..data_number |-> cn(i)[k]])]
        F1 == WithSeries(Frame(first), "copy_number", copy_number_mean)
        F2 == IF MeanAddsRounded(class, first.kind)
              THEN WithSeries(F1, "copy_number_integer",
                              [k \in 1..Len(first.rows) |-> Scale * Round0(copy_number_mean[k])])
              ELSE F1
        result_df == [kind |-> "eager", err |-> F2.err, cols |-> F2.cols, rows |-> F2.rows]
        built == IF class = "CopyNumberWindow"
                 THEN CopyNumberWindowInit(result_df, "chr", "start", "end", "copy_number")
                 ELSE CopyNumberChromosomeInit(result_df, "chr", NoneCol, NoneCol, "copy_number")
    IN  IF bad # {}
        THEN LET i == CHOOSE j \in bad : \A k \in bad : j <= k
             IN  {RaisedError("ValueError",
                              IF MeanNamesPair(class) THEN <<i - 1, i>> ELSE <<>>)}
        ELSE IF ~Ok(F2) THEN {RaisedError(F2.err, <<>>)}
        ELSE {IF o.data.raised THEN RaisedError(o.data.err, <<>>)
              ELSE [status |-> "ok", obj |-> o] : o \in built}

\* the methods each class defines
ClassMethods(class) ==
    LET shared == {"region_consistency_check", "accuracy_score", "recall_score",
                   "precision_score", "difference_std", "mean"}
    IN  IF class = "CopyNumberWindow"
        THEN shared \cup {"correlation_coefficient", "manhattan_plot_preprocess",
                          "manhattan_plot"}
        ELSE shared

\* correlation_coefficient: the consistency check, then pl.corr over the two
\* whole copy_number columns; the coefficient stands as the columns it is taken of
CorrelationCoefficient(class, x, y) ==
    IF "correlation_coefficient" \notin ClassMethods(class)
    THEN RaisedError("AttributeError", <<>>)
    ELSE IF ~RegionConsistencyCheck(class, x, y)
    THEN RaisedError("ValueError", <<>>)
    ELSE [status |-> "ok",
          copy_number_x |-> [k \in 1..Len(x.data.rows) |-> x.data.rows[k]["copy_number"]],
          copy_number_y |-> [k \in 1..Len(y.data.rows) |-> y.data.rows[k]["copy_number"]]]

\* a join that pairs every left row with every right row
KeysMatchAlways(a, b, on) == TRUE

\* whether a left and a right row agree on the join columns
KeysMatch(a, b, on) == \A c \in Range(on) : a[c] = b[c]

\* left.join(right, on=on, how="inner", coalesce=True): one row per pair of a
\* left and a right row that agree on the join columns, by left row and then by
\* right row; the other columns of the two tables have distinct names
Join(L, R, on) ==
    IF ~Ok(L) THEN L
    ELSE IF ~Ok(R) THEN R
    ELSE LET n       == Len(R.rows)
             hits    == {h \in (1..Len(L.rows)) \X (1..n) :
                            KeysMatch(L.rows[h[1]], R.rows[h[2]], on)}
             Pos(h)  == (h[1] - 1) * n + h[2]
             At(k)   == CHOOSE h \in hits : Cardinality({g \in hits : Pos(g) <= Pos(h)}) = k
             NotKey(c) == c \notin Range(on)
             cols    == L.cols \o SelectSeq(R.cols, NotKey)
         IN  [err  |-> "none", cols |-> cols,
              rows |-> [k \in 1..Cardinality(hits) |->
                          [c \in Range(cols) |->
                              IF c \in ColSet(L) THEN L.rows[At(k)[1]][c]
                              ELSE R.rows[At(k)[2]][c]]]]

\* the joined table a score is taken of: both tables are cut to the region
\* columns and the value column, the value column is renamed to <value>_true and
\* <value>_pred, the tables are joined on the region columns, and the two value
\* columns are selected
JoinedPairs(class, copy_number_true, copy_number_pred, value_col) ==
    LET region_cols   == RegionCols(class)
        required_cols == region_cols \o <<value_col>>
        t == Rename(Select(Frame(copy_number_true.data), required_cols), value_col, "true")
        p == Rename(Select(Frame(copy_number_pred.data), required_cols), value_col, "pred")
    IN  Select(Join(t, p, region_cols), <<"true", "pred">>)

\* the two aligned columns of a joined table, as handed to a metric
Aligned(J) ==
    [y_true |-> [k \in 1..Len(J.rows) |-> J.rows[k]["true"]],
     y_pred |-> [k \in 1..Len(J.rows) |-> J.rows[k]["pred"]]]

\* metrics.accuracy_score: the samples that agree, out of all samples
AccuracyMetric(y_true, y_pred) ==
    [hits  |-> Cardinality({k \in 1..Len(y_true) : y_true[k] = y_pred[k]}),
     total |-> Len(y_true)]

\* metrics.recall_score and metrics.precision_score, average="macro": for every
\* label, the samples rightly given the label out of the samples of reference
\* (the true column for recall, the predicted column for precision)
LabelMetric(y_true, y_pred, reference) ==
    [l \in Range(y_true) \cup Range(y_pred) |->
        [hits  |-> Cardinality({k \in 1..Len(y_true) : y_true[k] = l /\ y_pred[k] = l}),
         total |-> Cardinality({k \in 1..Len(reference) : reference[k] = l})]]

\* accuracy_score, recall_score, precision_score of a class: the metric of the
\* aligned integer_copy_number columns
Score(metric, class, copy_number_true, copy_number_pred) ==
    LET J == JoinedPairs(class, copy_number_true, copy_number_pred, "integer_copy_number")
        a == Aligned(J)
    IN  IF ~Ok(J) THEN {RaisedError(J.err, <<>>)}
        ELSE {[status |-> "ok", y_true |-> a.y_true, y_pred |-> a.y_pred,
               result |-> IF metric = "accuracy_score"
                          THEN AccuracyMetric(a.y_true, a.y_pred)
                          ELSE IF metric = "recall_score"
                          THEN LabelMetric(a.y_true, a.y_pred, a.y_true)
                          ELSE LabelMetric(a.y_true, a.y_pred, a.y_pred)]}

\* the null a series answers when it has no standard deviation
NullStd == [null |-> TRUE, num |-> 0, den |-> 0]

\* Series.std() (ddof=1) of n values d: the variance the result is the root
\* of, as a fraction; with n <= ddof there is no variance to take the root of,
\* the series answers null, and a series of one value answers 0.0 where the
\* engine treats it apart
SeriesStd(d) ==
    LET n == Len(d)
        s == SumSeq(d)
    IN  IF n = 0 THEN {NullStd}
        ELSE IF n = 1 THEN {NullStd, [null |-> FALSE, num |-> 0, den |-> 1]}
        ELSE {[null |-> FALSE,
               num  |-> n * SumSeq([k \in 1..n |-> d[k] * d[k]]) - s * s,
               den  |-> n * (n - 1)]}

\* difference_std of a class: float(std of copy_number_pred - copy_number_true)
\* over the joined rows; float(None) is a TypeError
DifferenceStd(class, copy_number_true, copy_number_pred) ==
    LET J == JoinedPairs(class, copy_number_true, copy_number_pred, "copy_number")
        a == Aligned(J)
        d == [k \in 1..Len(J.rows) |-> a.y_pred[k] - a.y_true[k]]
    IN  IF ~Ok(J) THEN {RaisedError(J.err, <<>>)}
        ELSE {IF s.null THEN RaisedError("TypeError", <<>>)
              ELSE [status |-> "ok", y_true |-> a.y_true, y_pred |-> a.y_pred, result |-> s] :
              s \in SeriesStd(d)}

\* the names copy_number.py defines at module level
CopyNumberModuleNames ==
    {"CopyNumber", "region_consistency_check", "accuracy_score", "recall_score",
     "precision_score", "difference_std", "mean"}

\* the names cnv_tools/__init__.py imports from cnv_tools.copy_number
PackageImports ==
    {"accuracy_score", "correlation_coefficient", "difference_std", "mean",
     "precision_score", "recall_score", "region_consistency_check"}

\* import cnv_tools: a name the module does not define is an ImportError
ImportPackage ==
    IF PackageImports \subseteq CopyNumberModuleNames
    THEN [status |-> "ok"]
    ELSE RaisedError("ImportError", <<>>)

(* --------------------------- the plot layout ------------------------- *)

\* the attributes an object of the package has besides its methods: data, set
\* by __init__, and CHROMOSOME_NAMES, set by the class CopyNumber; no class sets
\* _chromosome_names or _chromosome_rename
ObjectAttributes == {"data", "CHROMOSOME_NAMES"}

\* the attributes the plot methods read of self and of copy_number; an object has
\* them only when its caller has set them on it, _chromosome_names to the list of
\* CHROMOSOME_NAMES and _chromosome_rename to {"X": "23", "Y": "24"}
PlotAttributes == {"_chromosome_names", "_chromosome_rename"}

\* the sort keys ["chr_number", "position"], ascending
PlotKeyLessEq(a, b) ==
    \/ a["chr_number"] < b["chr_number"]
    \/ a["chr_number"] = b["chr_number"] /\ a["position"] <= b["position"]

\* sort(["chr_number", "position"]): rows that tie come out in any order
PlotSortOutcomes(rows) ==
    LET n == Len(rows)
        before == AsTuple([i \in 1..n |-> {j \in 1..n : PlotKeyLessEq(rows[j], rows[i])}])
        At(k) == CHOOSE i \in 1..n : Cardinality(before[i]) = k
    IN  IF \A i, j \in 1..n : (i # j) => ~(i \in before[j] /\ j \in before[i])
        THEN {AsTuple([k \in 1..n |-> rows[At(k)]])}
        ELSE {s \in {[i \in 1..n |-> rows[p[i]]] : p \in RowOrders(n)} :
                 \A i \in 1..(n - 1) : PlotKeyLessEq(s[i], s[i + 1])}

\* CopyNumberWindow.manhattan_plot_preprocess on an object on which its caller
\* has set the attributes set: position is the floor midpoint of start and end;
\* the filter reads self._chromosome_names and the rank reads
\* self._chromosome_rename, and reading an attribute the object lacks raises
\* AttributeError while the plan is built; with the attributes it keeps the
\* canonical chromosomes, attaches chr_number and sorts by (chr_number, position)
ManhattanPlotPreprocess(o, set) ==
    IF "manhattan_plot_preprocess" \notin ClassMethods(o.class)
    THEN {Raised("AttributeError")}
    ELSE LET F0 == Frame(o.data)
             F1 == WithColumn(F0, "position", {"start", "end"},
                              [i \in 1..Len(F0.rows) |->
                                  (F0.rows[i]["start"] + F0.rows[i]["end"]) \div 2])
             F2 == FilterCanonical(F1)
             F3 == WithColumn(F2, "chr_number", {"chr"},
                              [i \in 1..Len(F2.rows) |-> ChrSortKey(F2.rows[i]["chr"])])
         IN  IF o.data.kind = "eager" /\ ~Ok(F1) THEN {Raised(F1.err)}
             ELSE IF ~(PlotAttributes \subseteq ObjectAttributes \cup set)
             THEN {Raised("AttributeError")}
             ELSE IF ~Ok(F3) THEN {Returned(F3, o.data.kind)}
             ELSE {Returned([F3 EXCEPT !.rows = s], o.data.kind) :
                      s \in PlotSortOutcomes(F3.rows)}

Min(S) == CHOOSE x \in S : \A y \in S : x <= y

Max(S) == CHOOSE x \in S : \A y \in S : y <= x

\* the positions of the rows of manhattan_df on the chromosome named chr
ChrPositions(df, chr) ==
    LET on   == {i \in 1..Len(df.rows) : df.rows[i]["chr"] = chr}
        kept == AsTuple(KeepRows(df.rows, on))
    IN  AsTuple([k \in 1..Len(kept) |-> kept[k]["position"]])

\* numpy's x - bp: elementwise for equal lengths, an array of length one is
\* stretched to the other, and other lengths do not broadcast
ArrayDiff(x, bp) ==
    IF Len(x) = Len(bp) THEN [status |-> "ok", d |-> [k \in 1..Len(x) |-> x[k] - bp[k]]]
    ELSE IF Len(bp) = 1 THEN [status |-> "ok", d |-> [k \in 1..Len(x) |-> x[k] - bp[1]]]
    ELSE IF Len(x) = 1 THEN [status |-> "ok", d |-> [k \in 1..Len(bp) |-> x[1] - bp[k]]]
    ELSE [status |-> "raise", d |-> <<>>]

\* the figure dash_bio.ManhattanPlot answers for manhattan_df: one trace per
\* chr_number with rows, in ascending order, named "Chr<rank>", whose y are the
\* copy numbers and whose x are the positions moved by the summed last positions
\* of the traces before it; dev names a trace the library places otherwise, all
\* of its points moved by one ("shift") or its last point alone ("skew")
DashBioFigure(df, dev) ==
    LET ranks == {df.rows[i]["chr_number"] : i \in 1..Len(df.rows)}
        rank  == AsTuple([t \in 1..Cardinality(ranks) |->
                             CHOOSE r \in ranks : Cardinality({q \in ranks : q <= r}) = t])
        pts   == AsTuple([t \in 1..Len(rank) |->
                             AsTuple(KeepRows(df.rows, {i \in 1..Len(df.rows) :
                                                           df.rows[i]["chr_number"] = rank[t]}))])
        base  == AsTuple([t \in 1..Len(rank) |->
                             SumSeq([u \in 1..(t - 1) |-> pts[u][Len(pts[u])]["position"]])])
        Dev(t, k) == IF /\ t = dev.trace
                        /\ \/ dev.kind = "shift"
                           \/ dev.kind = "skew" /\ k = Len(pts[t])
                     THEN 1 ELSE 0
    IN  AsTuple([t \in 1..Len(rank) |->
            [name |-> <<"C", "h", "r">> \o Str(rank[t]),
             x    |-> AsTuple([k \in 1..Len(pts[t]) |->
                                  pts[t][k]["position"] + base[t] + Dev(t, k)]),
             y    |-> AsTuple([k \in 1..Len(pts[t]) |-> pts[t][k]["copy_number"]])]])

\* curr_chr_x_max when the trace at index i has been read
TraceXMax(figure, i) == Max(Range(figure[i].x))

\* curr_chr_x_min: the first trace's least x; for a later trace the midpoint of
\* its least x and the trace before's greatest
TraceXMin(figure, i) ==
    IF i = 1 THEN Min(Range(figure[1].x))
    ELSE (Min(Range(figure[i].x)) + TraceXMax(figure, i - 1)) \div 2

\* curr_chr_x_med
TraceXMed(figure, i) == (TraceXMin(figure, i) + TraceXMax(figure, i)) \div 2

\* last_base when the trace at index i is checked: the position of the last row
\* of each of the chromosomes named before it
LastBase(names, df, i) ==
    SumSeq([j \in 1..(i - 1) |->
               LET p == ChrPositions(df, names[j])
               IN  IF p = <<>> THEN 0 ELSE p[Len(p)]])

\* np.unique(diff)[0] != last_base raises: the difference must be last_base
DiffMatches(d, last_base) == d[1] = last_base

\* what the body of the loop raises for the trace at index i >= 2
LayoutError(names, df, figure, i) ==
    IF ChrPositions(df, names[i - 1]) = <<>> THEN "OutOfBoundsError"
    ELSE LET diff == ArrayDiff(figure[i].x, ChrPositions(df, names[i]))
         IN  IF diff.status = "raise" THEN "ValueError"
             ELSE IF Cardinality(Range(diff.d)) # 1 THEN "ValueError"
             ELSE IF ~DiffMatches(diff.d, LastBase(names, df, i)) THEN "ValueError"
             ELSE "none"

\* an entry that carries the last position of the chromosome before alone
ChrPosDiffUnsummed(names, df, i) ==
    [chr |-> names[i],
     position_diff |-> IF i = 1 THEN 0 ELSE LastBase(names, df, i) - LastBase(names, df, i - 1)]

\* chr_pos_diff's entry for the trace at index i: its name and last_base
ChrPosDiff(names, df, i) ==
    [chr |-> names[i], position_diff |-> LastBase(names, df, i)]

\* manhattan_plot from the trace count on: the count must be that of the names
\* or one less; the first trace is given the first name and the offset 0 with
\* no check; every later trace is given the name at its index, its ticks, and
\* the offset last_base after the check of its differences
ManhattanPlotLayout(names, df, figure) ==
    LET chr_count == Len(figure)
        bad == {i \in 2..chr_count : LayoutError(names, df, figure, i) # "none"}
    IN  IF chr_count \notin {Len(names), Len(names) - 1}
        THEN RaisedError("ValueError", <<>>)
        ELSE IF bad # {}
        THEN RaisedError(LayoutError(names, df, figure, Min(bad)), <<>>)
        ELSE [status   |-> "ok",
              figure   |-> figure,
              tickvals |-> AsTuple([i \in 1..chr_count |-> TraceXMed(figure, i)]),
              ticktext |-> AsTuple([i \in 1..chr_count |-> names[i]]),
              minor_tickvals |-> <<TraceXMin(figure, 1)>>
                                     \o [i \in 1..chr_count |-> TraceXMax(figure, i)],
              position_converter |->
                  AsTuple([i \in 1..chr_count |-> ChrPosDiff(names, df, i)])]

\* CopyNumberWindow.manhattan_plot: preprocess, collect, ask the plotting
\* library for the figure, and lay it out
ManhattanPlot(o, set, dev) ==
    {IF t.raised \/ t.err # "none" THEN RaisedError(t.err, <<>>)
     ELSE LET manhattan_df == [t EXCEPT !.rows = AsTuple(t.rows)]
          IN  ManhattanPlotLayout(CHROMOSOME_NAMES, manhattan_df,
                                  DashBioFigure(manhattan_df, dev)) :
     t \in ManhattanPlotPreprocess(o, set)}

(* ---------------------------- the CNV lines -------------------------- *)

\* str.removeprefix(p)
RemovePrefix(s, p) == IF StartsWith(s, p) THEN SubSeq(s, Len(p) + 1, Len(s)) ELSE s

\* the members of a set of integers, ascending
Ascending(S) ==
    AsTuple([k \in 1..Cardinality(S) |->
                CHOOSE v \in S : Cardinality({u \in S : u <= v}) = k])

RECURSIVE IntervalsFrom(_, _, _, _)
\* the loop of integers_to_intervals over the integers after the first
IntervalsFrom(rest, left, right, intervals) ==
    IF rest = <<>> THEN Append(intervals, <<left, right>>)
    ELSE LET i == Head(rest)
         IN  IF i - right > 1
             THEN IntervalsFrom(Tail(rest), i, i, Append(intervals, <<left, right>>))
             ELSE IntervalsFrom(Tail(rest), left, i, intervals)

\* one interval from the first integer to the last
IntegersToIntervalsSpan(integers) ==
    IF Len(integers) < 1 THEN <<>>
    ELSE << <<integers[1], integers[Len(integers)]>> >>

\* integers_to_intervals: the closed intervals of an ascending sequence
IntegersToIntervals(integers) ==
    IF Len(integers) < 1 THEN <<>>
    ELSE IntervalsFrom(Tail(integers), integers[1], integers[1], <<>>)

\* the k-th of the values in ascending order
SortedAt(values, k) ==
    CHOOSE v \in Range(values) :
        /\ Cardinality({i \in 1..Len(values) : values[i] < v}) < k
        /\ k <= Cardinality({i \in 1..Len(values) : values[i] <= v})

\* filtered_copy_number_series: the values from the quantile 0.25 with
\* interpolation "lower" to the quantile 0.75 with interpolation "higher", the
\* members at floor((n - 1) / 4) and ceil(3 (n - 1) / 4) of the ascending values
FilteredCopyNumbers(copy_numbers) ==
    LET n     == Len(copy_numbers)
        lower == SortedAt(copy_numbers, ((n - 1) \div 4) + 1)
        upper == SortedAt(copy_numbers, ((3 * (n - 1) + 3) \div 4) + 1)
        Kept(v) == lower <= v /\ v <= upper
    IN  SelectSeq(copy_numbers, Kept)

\* a clamp into 1..2, the range the docstring names
ClampCopyNumberDocstring(x) == Max({Min({x, 2}), 1})

\* min(x, max_chr_copy_number), then max(.., min_chr_copy_number), in 0..2
ClampCopyNumber(x) == Max({Min({x, 2}), 0})

\* normal_chr_copy_number: the values between the quantile 0.25 taken downward
\* and the quantile 0.75 taken upward, their mean rounded half to even, and
\* the outcome held within 0..2
NormalChrCopyNumber(copy_numbers) ==
    LET filtered == FilteredCopyNumbers(copy_numbers)
        integer_copy_number == RoundDivEven(SumSeq(filtered), Len(filtered) * Scale)
    IN  ClampCopyNumber(integer_copy_number)

\* f'cnv_{chr}_{start}_{end}'
CnvTraceName(chr, start, end) ==
    <<"c", "n", "v", "_">> \o chr \o <<"_">> \o Str(start) \o <<"_">> \o Str(end)

\* f"non_cnv_{chr}_{start}_{end}"
NonCnvTraceName(chr, start, end) ==
    <<"n", "o", "n", "_">> \o CnvTraceName(chr, start, end)

\* curr_cnv_chr: the name without "cnv_", its leading "X" or "Y" replaced by
\* the rank
CnvChr(name) ==
    LET c0 == RemovePrefix(name, <<"c", "n", "v", "_">>)
        c1 == IF StartsWith(c0, <<"X", "_">>) THEN StrReplace(c0, <<"X">>, <<"2", "3">>) ELSE c0
    IN  IF StartsWith(c1, <<"Y", "_">>) THEN StrReplace(c1, <<"Y">>, <<"2", "4">>) ELSE c1

\* curr_cnv_chr.startswith(curr_trace_chr)
TraceMatches(cnv_chr, trace_chr) == StartsWith(cnv_chr, trace_chr)

\* the x of a trace left when the spans of the matching CNV traces are taken out
NonCnvX(trace, cnv_traces) ==
    LET trace_chr == RemovePrefix(trace.name, <<"C", "h", "r">>)
    IN  {v \in Min(Range(trace.x))..Max(Range(trace.x)) :
            \A j \in 1..Len(cnv_traces) :
                TraceMatches(CnvChr(cnv_traces[j].name), trace_chr) =>
                    (v < cnv_traces[j].x[1] \/ v > cnv_traces[j].x[2])}

\* the non-CNV traces of one trace of the figure
NonCnvTraces(trace, cnv_traces) ==
    LET trace_chr == RemovePrefix(trace.name, <<"C", "h", "r">>)
        y         == NormalChrCopyNumber(trace.y)
        intervals == IntegersToIntervals(Ascending(NonCnvX(trace, cnv_traces)))
    IN  AsTuple([k \in 1..Len(intervals) |->
                    [name |-> NonCnvTraceName(trace_chr, intervals[k][1], intervals[k][2]),
                     x    |-> intervals[k],
                     y    |-> <<y, y>>]])

RECURSIVE Concat(_)
Concat(seqs) == IF seqs = <<>> THEN <<>> ELSE Head(seqs) \o Concat(Tail(seqs))

\* ManhattanPlot.cnv_line_traces of the plot self on the object o: the rows of
\* the preprocessed table are left-joined with the position converter, a row
\* whose chromosome the converter lacks has a null offset and int() of it
\* raises TypeError; every row gives one CNV trace, every trace of the figure
\* its non-CNV traces
CnvLineTraces(self, o, set) ==
    {IF t.raised \/ t.err # "none" THEN RaisedError(t.err, <<>>)
     ELSE LET rows == AsTuple(t.rows)
              pc   == self.position_converter
              Known(chr) == \E j \in 1..Len(pc) : pc[j].chr = chr
              Diff(chr)  == pc[CHOOSE j \in 1..Len(pc) : pc[j].chr = chr].position_diff
              cnv_traces ==
                  AsTuple([i \in 1..Len(rows) |->
                      LET manhattan_start == rows[i]["start"] + Diff(rows[i]["chr"])
                          manhattan_end   == rows[i]["end"] + Diff(rows[i]["chr"])
                      IN  [name |-> CnvTraceName(rows[i]["chr"], manhattan_start, manhattan_end),
                           x    |-> <<manhattan_start, manhattan_end>>,
                           y    |-> <<rows[i]["copy_number"], rows[i]["copy_number"]>>]])
          IN  IF \E i \in 1..Len(rows) : ~Known(rows[i]["chr"])
              THEN RaisedError("TypeError", <<>>)
              ELSE [status         |-> "ok",
                    cnv_traces     |-> cnv_traces,
                    non_cnv_traces |->
                        Concat(AsTuple([i \in 1..Len(self.figure) |->
                                           NonCnvTraces(self.figure[i], cnv_traces)]))] :
     t \in ManhattanPlotPreprocess(o, set)}

(* ----------------------------- the inputs ---------------------------- *)

\* chromosome labels of the input tables: bare, "chr"- and "Chr"-prefixed,
\* and labels outside the canonical set
RawLabels ==
    { <<"1">>, <<"2">>, <<"1", "0">>, <<"X">>,
      <<"c", "h", "r", "1">>, <<"C", "h", "r", "1">>,
      <<"M", "T">>, <<"c", "h", "r", "U", "n">> }

RawStarts == {0, 1}

\* copy numbers of the input tables, Float64 values in ticks: 2.0, and the
\* Float64 next below 3.5, which no Float32 holds
RawCopyNumbers == {2 * Scale, 3 * Scale + (Scale \div 2) - 1}

RawCnvTypes == {"gain", "loss", "dup"}

Kinds == {"eager", "lazy"}

ChrCols == {"chr", "chrom"}

\* window: start and end columns; point: one column named as start and as end;
\* chromosome: neither column; chromosome_start: chromosome-level mode on a table
\* that has a column named start
Layouts == {"window", "point", "chromosome", "chromosome_start"}

StartColOf(layout) ==
    IF layout = "window" THEN "start" ELSE IF layout = "point" THEN "pos" ELSE NoneCol

EndColOf(layout) ==
    IF layout = "window" THEN "end" ELSE IF layout = "point" THEN "pos" ELSE NoneCol

LayoutCols(layout, chr_col, value_col) ==
    IF layout = "window" THEN <<chr_col, "start", "end", value_col>>
    ELSE IF layout = "point" THEN <<chr_col, "pos", value_col>>
    ELSE IF layout = "chromosome_start" THEN <<chr_col, "start", value_col>>
    ELSE <<chr_col, value_col>>

\* a table of the given layout whose i-th row has the label, start and value of base[i]
InputTable(base, kind, layout, chr_col, value_col) ==
    LET cols == LayoutCols(layout, chr_col, value_col)
    IN  [kind |-> kind, err |-> "none", cols |-> cols,
         rows |-> [i \in 1..Len(base) |->
                     [c \in {cols[j] : j \in 1..Len(cols)} |->
                         IF c = chr_col THEN base[i].chr
                         ELSE IF c = value_col THEN base[i].value
                         ELSE IF c = "end" THEN base[i].start + base[i].len
                         ELSE base[i].start]]]

TablesOf(rowSet, n) == UNION {[1..k -> rowSet] : k \in 0..n}

CopyNumberBase ==
    TablesOf([chr : RawLabels, start : RawStarts, len : {1}, value : RawCopyNumbers], MaxRows)

CnvBase == TablesOf([chr : {<<"1">>, <<"1", "0">>, <<"c", "h", "r", "2">>, <<"M", "T">>},
                     start : RawStarts, len : {1}, value : RawCnvTypes], MaxRows)

\* rows of the tables the compared objects are built from: two that differ in
\* copy number alone, one that differs in end alone, one on another chromosome
CheckRows ==
    { [chr |-> <<"1">>, start |-> 0, len |-> 1, value |-> Scale],
      [chr |-> <<"1">>, start |-> 0, len |-> 1, value |-> 2 * Scale],
      [chr |-> <<"1">>, start |-> 0, len |-> 2, value |-> Scale],
      [chr |-> <<"2">>, start |-> 0, len |-> 1, value |-> Scale] }

\* rows of the tables handed to mean: copy numbers 1.0, 2.0 and 3.0 on one
\* region, and another region
MeanRows ==
    { [chr |-> <<"1">>, start |-> 0, len |-> 1, value |-> Scale],
      [chr |-> <<"1">>, start |-> 0, len |-> 1, value |-> 2 * Scale],
      [chr |-> <<"1">>, start |-> 0, len |-> 1, value |-> 3 * Scale],
      [chr |-> <<"2">>, start |-> 0, len |-> 1, value |-> Scale] }

\* rows of the window tables handed to the reducer: copy numbers 1.0 and 3.0
\* on chromosomes "1" and "2"
WindowRows ==
    [chr : {<<"1">>, <<"2">>}, start : RawStarts, len : {1}, value : {Scale, 3 * Scale}]

\* the normalized window tables of a kind, of at most n windows
NormalizedWindows(kind, n) ==
    {t \in UNION {CopyNumberPreprocess(InputTable(b, kind, "window", "chr", "copy_number"),
                                       "chr", "start", "end", "copy_number") :
                      b \in TablesOf(WindowRows, n)} : t.err = "none"}

\* the canonical chromosomes a plotted table has no window on
MissingChromosomes ==
    {{}, {<<"Y">>}, {<<"X">>}, {<<"1">>}, {<<"2">>}, {<<"X">>, <<"Y">>}}

\* a chromosome that has a second window, or the empty label for none
ExtraWindows == {<<>>, <<"1">>, <<"2">>, <<"X">>}

\* the trace the plotting library places off the expected layout, and how
Deviations ==
    {[trace |-> 0, kind |-> "none"]}
        \cup [trace : {1, 2, 24}, kind : {"shift", "skew"}]

\* the lengths of the windows of a plotted table
PlotLens == {1, 2}

\* the rows of a plotted table: a window (0, len) on every canonical chromosome
\* outside missing, and a second window (2, 2 + len) on the chromosome extra
PlotBase(missing, extra, len) ==
    LET Present(c) == c \notin missing
        first  == SelectSeq(CHROMOSOME_NAMES, Present)
        one    == [i \in 1..Len(first) |->
                      [chr |-> first[i], start |-> 0, len |-> len, value |-> 2 * Scale]]
    IN  IF extra \in ChromosomeNameSet \ missing
        THEN Append(one, [chr |-> extra, start |-> 2, len |-> len, value |-> 2 * Scale])
        ELSE one

\* the window objects built from the plotted tables
PlotObjects(kind, missing, extra, len) ==
    {o \in CopyNumberWindowInit(InputTable(PlotBase(missing, extra, len), kind, "window",
                                           "chr", "copy_number"),
                                "chr", "start", "end", "copy_number") :
        o.data.err = "none"}

\* rows of the window tables handed to manhattan_plot_preprocess: canonical
\* chromosomes and "MT", windows of one and of two positions
PreprocessRows ==
    [chr : {<<"1">>, <<"1", "0">>, <<"X">>, <<"M", "T">>}, start : {0, 1}, len : {1, 2},
     value : {Scale}]

\* rows of the tables of CNV segments: on chromosomes "1", "10" and "Y"
SegmentRows ==
    [chr : {<<"1">>, <<"1", "0">>, <<"Y">>}, start : {0, 1}, len : {1}, value : {Scale}]

Classes == {"CopyNumberWindow", "CopyNumberChromosome"}

\* the strictly ascending sequences of integers of 1..MaxInteger
AscendingSequences == {Ascending(S) : S \in SUBSET (1..MaxInteger)}

\* y-values in ticks: 0.0, 0.5, 1.0 and 3.0
YValues == {0, Scale \div 2, Scale, 3 * Scale}

\* the sequences of y-values of a trace, of 0 to MaxY values
YSequences == UNION {[1..n -> YValues] : n \in 0..MaxY}

\* the three scores handed to the statistics library
ScoreMetrics == {"accuracy_score", "recall_score", "precision_score"}

\* the objects of a class the constructor builds from the window tables of at
\* most n rows of rowSet
Objects(class, kind, rowSet, n) ==
    LET tables == {InputTable(b, kind, "window", "chr", "copy_number") :
                      b \in TablesOf(rowSet, n)}
        built  == UNION {IF class = "CopyNumberWindow"
                         THEN CopyNumberWindowInit(t, "chr", "start", "end", "copy_number")
                         ELSE CopyNumberChromosomeInit(t, "chr", "start", "end", "copy_number") :
                         t \in tables}
    IN  {o \in built : o.data.err = "none"}

(* ---------------------------- the operations ------------------------- *)

\* a method that collects the table of its argument in place
DataAfterCollected(method, d) ==
    IF d.kind = "lazy" /\ d.err = "none" THEN [d EXCEPT !.kind = "eager"] ELSE d

\* the table an argument holds when method has returned: collect and lazy
\* assign self.data the table of the other kind (a failing plan raises in
\* collect before the assignment); no other method assigns to an argument or
\* to its data, and the table operations it calls build new tables
DataAfter(method, d) ==
    IF method = "collect" /\ d.kind = "lazy" /\ d.err = "none"
    THEN [d EXCEPT !.kind = "eager"]
    ELSE IF method = "lazy" /\ d.kind = "eager" THEN [d EXCEPT !.kind = "lazy"]
    ELSE d

\* an object handed to method, when method has returned
ObjectAfter(method, o) == [o EXCEPT !.data = DataAfter(method, o.data)]

Init ==
    /\ op = "init"
    /\ arg = <<>>
    /\ ret = <<>>
    /\ after = <<>>

\* copy_number_preprocess on an input table
CopyNumberPreprocessCall ==
    /\ op = "init"
    /\ \E base \in CopyNumberBase, kind \in Kinds, layout \in Layouts, chr_col \in ChrCols :
        LET data == InputTable(base, kind, layout, chr_col, "copy_number")
        IN  \E r \in CopyNumberPreprocess(data, chr_col, StartColOf(layout),
                                          EndColOf(layout), "copy_number") :
                /\ op' = "copy_number_preprocess"
                /\ arg' = [data |-> data, chr_col |-> chr_col, layout |-> layout,
                           start_col |-> StartColOf(layout), end_col |-> EndColOf(layout)]
                /\ ret' = r
                /\ after' = [data |-> DataAfter("copy_number_preprocess", data)]

\* copy_number_preprocess on its own output, with the canonical column names
CopyNumberPreprocessAgain ==
    /\ op = "copy_number_preprocess"
    /\ ret.err = "none"
    /\ LET start_col == IF arg.start_col = NoneCol THEN NoneCol ELSE "start"
           end_col   == IF arg.end_col = NoneCol THEN NoneCol ELSE "end"
       IN  \E r \in CopyNumberPreprocess(ret, "chr", start_col, end_col, "copy_number") :
               /\ op' = "copy_number_preprocess_again"
               /\ arg' = [data |-> ret, chr_col |-> "chr", layout |-> arg.layout,
                          start_col |-> start_col, end_col |-> end_col]
               /\ ret' = r
               /\ after' = [data |-> DataAfter("copy_number_preprocess", ret)]

\* cnv_preprocess on an input table
CnvPreprocessCall ==
    /\ op = "init"
    /\ \E base \in CnvBase, kind \in Kinds, layout \in {"window", "point"}, chr_col \in ChrCols,
       labels \in {<<"gain", "loss">>, <<"dup", "del">>} :
        LET data == InputTable(base, kind, layout, chr_col, "cnv_type")
        IN  \E r \in CnvPreprocess(data, chr_col, StartColOf(layout), EndColOf(layout),
                                   "cnv_type", labels[1], labels[2]) :
                /\ op' = "cnv_preprocess"
                /\ arg' = [data |-> data, chr_col |-> chr_col, layout |-> layout,
                           start_col |-> StartColOf(layout), end_col |-> EndColOf(layout),
                           gain_value |-> labels[1], loss_value |-> labels[2]]
                /\ ret' = r
                /\ after' = [data |-> DataAfter("cnv_preprocess", data)]

Next ==
    \/ CopyNumberPreprocessCall
    \/ CopyNumberPreprocessAgain
    \/ CnvPreprocessCall

Spec == Init /\ [][Next]_vars

\* region_consistency_check on two objects of one class
RegionConsistencyCheckCall ==
    /\ op = "init"
    /\ \E class \in Classes, kind \in Kinds :
        \E x, y \in Objects(class, kind, CheckRows, MaxRows) :
            /\ op' = "region_consistency_check"
            /\ arg' = [class |-> class, x |-> x, y |-> y]
            /\ ret' = RegionConsistencyCheck(class, x, y)
            /\ after' = [x |-> ObjectAfter("region_consistency_check", x),
                         y |-> ObjectAfter("region_consistency_check", y)]

\* mean on one to MaxN objects of one class
MeanCall ==
    /\ op = "init"
    /\ \E class \in Classes, kind \in Kinds, n \in 1..MaxN :
        \E copy_numbers \in [1..n -> Objects(class, kind, MeanRows, MaxMeanRows)] :
            \E r \in Mean(class, copy_numbers) :
                /\ op' = "mean"
                /\ arg' = [class |-> class, copy_numbers |-> copy_numbers]
                /\ ret' = r
                /\ after' = [copy_numbers |->
                                [i \in DOMAIN copy_numbers |->
                                    ObjectAfter("mean", copy_numbers[i])]]

\* correlation_coefficient on two objects of one class
CorrelationCoefficientCall ==
    /\ op = "init"
    /\ \E class \in Classes, kind \in Kinds :
        \E x, y \in Objects(class, kind, CheckRows, MaxRows) :
            /\ op' = "correlation_coefficient"
            /\ arg' = [class |-> class, x |-> x, y |-> y]
            /\ ret' = CorrelationCoefficient(class, x, y)
            /\ after' = [x |-> ObjectAfter("correlation_coefficient", x),
                         y |-> ObjectAfter("correlation_coefficient", y)]

\* import cnv_tools
ImportPackageCall ==
    /\ op = "init"
    /\ op' = "import"
    /\ arg' = <<>>
    /\ ret' = ImportPackage
    /\ after' = <<>>

\* accuracy_score, recall_score or precision_score on two objects of one class
ScoreCall ==
    /\ op = "init"
    /\ \E metric \in ScoreMetrics, class \in Classes, kind \in Kinds :
        \E x, y \in Objects(class, kind, CheckRows, MaxRows) :
            \E r \in Score(metric, class, x, y) :
                /\ op' = metric
                /\ arg' = [class |-> class, x |-> x, y |-> y]
                /\ ret' = r
                /\ after' = [x |-> ObjectAfter(metric, x), y |-> ObjectAfter(metric, y)]

\* difference_std on two objects of one class
DifferenceStdCall ==
    /\ op = "init"
    /\ \E class \in Classes, kind \in Kinds :
        \E x, y \in Objects(class, kind, CheckRows, MaxRows) :
            \E r \in DifferenceStd(class, x, y) :
                /\ op' = "difference_std"
                /\ arg' = [class |-> class, x |-> x, y |-> y]
                /\ ret' = r
                /\ after' = [x |-> ObjectAfter("difference_std", x),
                             y |-> ObjectAfter("difference_std", y)]

NextCmp ==
    \/ RegionConsistencyCheckCall
    \/ MeanCall
    \/ CorrelationCoefficientCall
    \/ ImportPackageCall
    \/ ScoreCall
    \/ DifferenceStdCall

SpecCmp == Init /\ [][NextCmp]_vars

\* manhattan_plot on a window object, with the attributes its caller has set
\* and the figure the plotting library answers
ManhattanPlotCall ==
    /\ op = "init"
    /\ \E kind \in Kinds, missing \in MissingChromosomes, extra \in ExtraWindows,
          len \in PlotLens :
        \E o \in PlotObjects(kind, missing, extra, len) :
          \E set \in {{}, PlotAttributes}, dev \in Deviations :
            \E r \in ManhattanPlot(o, set, dev) :
                /\ op' = "manhattan_plot"
                /\ arg' = [obj |-> o, set |-> set, dev |-> dev]
                /\ ret' = r
                /\ after' = [obj |-> ObjectAfter("manhattan_plot", o)]

\* cnv_line_traces of a plot manhattan_plot has returned, on an object of CNV
\* segments
CnvLineTracesCall ==
    /\ op = "manhattan_plot"
    /\ ret.status = "ok"
    /\ \E kind \in Kinds, set \in {{}, PlotAttributes} :
        \E o \in Objects("CopyNumberWindow", kind, SegmentRows, MaxSegments) :
            \E r \in CnvLineTraces(ret, o, set) :
                /\ op' = "cnv_line_traces"
                /\ arg' = [self |-> ret, copy_number |-> o, set |-> set]
                /\ ret' = r
                /\ after' = [copy_number |-> ObjectAfter("cnv_line_traces", o)]

\* manhattan_plot_preprocess on a window object, with the attributes its
\* caller has set
ManhattanPlotPreprocessCall ==
    /\ op = "init"
    /\ \E kind \in Kinds :
        \E o \in Objects("CopyNumberWindow", kind, PreprocessRows, MaxRows) :
          \E set \in {{}, PlotAttributes} :
            \E r \in ManhattanPlotPreprocess(o, set) :
                /\ op' = "manhattan_plot_preprocess"
                /\ arg' = [obj |-> o, data |-> o.data, set |-> set]
                /\ ret' = r
                /\ after' = [obj |-> ObjectAfter("manhattan_plot_preprocess", o)]

NextPlot ==
    \/ ManhattanPlotCall
    \/ CnvLineTracesCall
    \/ ManhattanPlotPreprocessCall

SpecPlot == Init /\ [][NextPlot]_vars

\* chromosome_copy_number on a normalized window table
ChromosomeCopyNumberCall ==
    /\ op = "init"
    /\ \E kind \in Kinds :
        \E data \in NormalizedWindows(kind, MaxWindows) :
            /\ op' = "chromosome_copy_number"
            /\ arg' = [data |-> data]
            /\ ret' = ChromosomeCopyNumber(data)
            /\ after' = [data |-> DataAfter("chromosome_copy_number", data)]

\* Cnv(...) on an input table
CnvInitCall ==
    /\ op = "init"
    /\ \E base \in CnvBase, kind \in Kinds, layout \in {"window", "point"}, chr_col \in ChrCols,
       labels \in {<<"gain", "loss">>, <<"dup", "del">>} :
        LET data == InputTable(base, kind, layout, chr_col, "cnv_type")
        IN  \E o \in CnvInit(data, chr_col, StartColOf(layout), EndColOf(layout),
                              "cnv_type", labels[1], labels[2]) :
                /\ op' = "Cnv"
                /\ arg' = [data |-> data, chr_col |-> chr_col, layout |-> layout,
                           start_col |-> StartColOf(layout), end_col |-> EndColOf(layout),
                           gain_value |-> labels[1], loss_value |-> labels[2]]
                /\ ret' = o
                /\ after' = [data |-> DataAfter("Cnv", data)]

NextObj ==
    \/ ChromosomeCopyNumberCall
    \/ CnvInitCall

SpecObj == Init /\ [][NextObj]_vars

\* collect() or lazy() on an object: it answers the object itself
CollectCall ==
    /\ op = "init"
    /\ \E method \in {"collect", "lazy"}, class \in Classes, kind \in Kinds :
        \E x \in Objects(class, kind, CheckRows, MaxRows) :
            /\ op' = method
            /\ arg' = [class |-> class, x |-> x]
            /\ ret' = ObjectAfter(method, x)
            /\ after' = [x |-> ObjectAfter(method, x)]

\* the calls that take tables or objects
NextArg ==
    \/ CopyNumberPreprocessCall
    \/ CnvPreprocessCall
    \/ RegionConsistencyCheckCall
    \/ ScoreCall
    \/ DifferenceStdCall
    \/ CorrelationCoefficientCall
    \/ MeanCall
    \/ ChromosomeCopyNumberCall
    \/ CollectCall

SpecArg == Init /\ [][NextArg]_vars

\* integers_to_intervals on an ascending sequence
IntegersToIntervalsCall ==
    /\ op = "init"
    /\ \E integers \in AscendingSequences :
        /\ op' = "integers_to_intervals"
        /\ arg' = [integers |-> integers]
        /\ ret' = IntegersToIntervals(integers)
        /\ after' = <<>>

\* normal_chr_copy_number on the y-values of a trace: the quantile of no
\* values is None and the comparison with it raises; the mean of no retained
\* values is None and round() of it raises
NormalChrCopyNumberCall ==
    /\ op = "init"
    /\ \E copy_numbers \in YSequences :
        /\ op' = "normal_chr_copy_number"
        /\ arg' = [copy_numbers |-> copy_numbers]
        /\ ret' = IF copy_numbers = <<>> \/ FilteredCopyNumbers(copy_numbers) = <<>>
                  THEN RaisedError("TypeError", <<>>)
                  ELSE [status |-> "ok", value |-> NormalChrCopyNumber(copy_numbers)]
        /\ after' = <<>>

\* the helpers of cnv_line_traces
NextFn ==
    \/ IntegersToIntervalsCall
    \/ NormalChrCopyNumberCall

SpecFn == Init /\ [][NextFn]_vars

\* CopyNumber.collect(): a lazy table is collected and assigned to self.data
\* (a failing plan raises before the assignment), and self is returned
Collect(o) ==
    IF o.data.kind = "lazy" /\ o.data.err # "none"
    THEN [self |-> o, ret |-> RaisedError(o.data.err, <<>>)]
    ELSE [self |-> ObjectAfter("collect", o), ret |-> [status |-> "ok", returned |-> "self"]]

\* a lazy() that answers a lazy copy and leaves self as it is
LazyCopy(o) == [self |-> o, ret |-> [status |-> "ok", returned |-> "copy"]]

\* CopyNumber.lazy(): an eager table is made lazy and assigned to self.data,
\* and self is returned
Lazy(o) == [self |-> ObjectAfter("lazy", o), ret |-> [status |-> "ok", returned |-> "self"]]

\* an object of either class, as its constructor has built it, before any
\* collect() or lazy()
InitSeq ==
    /\ op = "__init__"
    /\ \E class \in Classes, kind \in Kinds :
        \E x \in Objects(class, kind, CheckRows, MaxRows) :
            /\ arg = [class |-> class, x |-> x, calls |-> <<>>]
            /\ after = [x |-> x, prev |-> x]
    /\ ret = <<>>

\* collect() on the object, after the calls made so far
CollectSelf ==
    /\ Len(arg.calls) < MaxCalls
    /\ LET r == Collect(after.x)
       IN  /\ op' = "collect"
           /\ arg' = [arg EXCEPT !.calls = Append(@, "collect")]
           /\ ret' = r.ret
           /\ after' = [x |-> r.self, prev |-> after.x]

\* lazy() on the object, after the calls made so far
LazySelf ==
    /\ Len(arg.calls) < MaxCalls
    /\ LET r == Lazy(after.x)
       IN  /\ op' = "lazy"
           /\ arg' = [arg EXCEPT !.calls = Append(@, "lazy")]
           /\ ret' = r.ret
           /\ after' = [x |-> r.self, prev |-> after.x]

\* sequences of collect() and lazy() on one object
NextSeq ==
    \/ CollectSelf
    \/ LazySelf

SpecSeq == InitSeq /\ [][NextSeq]_vars

(* ------------------------------ the claims --------------------------- *)

PreprocessOps == {"copy_number_preprocess", "copy_number_preprocess_again", "cnv_preprocess"}

\* rank of a canonical label: "1".."22" are 1..22, "X" is 23, "Y" is 24
CanonicalRank(chr) == CHOOSE i \in 1..Len(CHROMOSOME_NAMES) : CHROMOSOME_NAMES[i] = chr

\* the chromosome labels of the input table, row by row
InputLabels == [i \in 1..Len(arg.data.rows) |-> arg.data.rows[i][arg.chr_col]]

OutputLabels == [i \in 1..Len(ret.rows) |-> ret.rows[i]["chr"]]

\* how many members of the sequence f are v
Count(f, v) == Cardinality({i \in DOMAIN f : f[i] = v})

HasPrefix(l) == StartsWith(l, LowerPrefix) \/ StartsWith(l, UpperPrefix)

\* the label without its first three characters
Unprefixed(l) == SubSeq(l, 4, Len(l))

\* C1: with start and end columns, every adjacent pair of output rows of
\* copy_number_preprocess and cnv_preprocess is ordered by (rank(chr), start)
C1_SortInvariant ==
    (op \in PreprocessOps /\ arg.start_col # NoneCol /\ ret.err = "none") =>
        \A i \in 1..(Len(ret.rows) - 1) :
            LET a == ret.rows[i]
                b == ret.rows[i + 1]
            IN  \/ CanonicalRank(a["chr"]) < CanonicalRank(b["chr"])
                \/ /\ CanonicalRank(a["chr"]) = CanonicalRank(b["chr"])
                   /\ a["start"] <= b["start"]

\* an input holding "X" before "10" comes out with "10" first
C1_Witness ==
    /\ op = "copy_number_preprocess"
    /\ arg.start_col # NoneCol
    /\ ret.err = "none"
    /\ InputLabels = << <<"X">>, <<"1", "0">> >>
    /\ Len(ret.rows) = 2
    /\ ret.rows[1]["chr"] = <<"1", "0">>

\* C2: every chr of an output is one of the 24 canonical labels, so no row with
\* another label is in the output
C2_ChromosomeFilter ==
    (op \in PreprocessOps /\ ret.err = "none") =>
        /\ \A i \in 1..Len(ret.rows) :
              \E n \in 1..24 : ret.rows[i]["chr"] = (IF n = 23 THEN <<"X">>
                                                     ELSE IF n = 24 THEN <<"Y">> ELSE Str(n))
        /\ <<"M", "T">> \notin Range(OutputLabels)
        /\ <<"c", "h", "r", "U", "n">> \notin Range(OutputLabels)

\* an input with an "MT" row and a canonical row keeps only the canonical one
C2_Witness ==
    /\ op \in {"copy_number_preprocess", "cnv_preprocess"}
    /\ ret.err = "none"
    /\ InputLabels = << <<"M", "T">>, <<"1">> >>
    /\ OutputLabels = << <<"1">> >>

\* C3: when every label starts with "chr", or every label with "Chr", the prefix
\* is stripped from all rows and the column arrives as chr, whatever chr_col is
C3_PrefixStripped ==
    (/\ op \in {"copy_number_preprocess", "cnv_preprocess"}
     /\ arg.layout \in {"window", "point"}
     /\ Len(InputLabels) > 0
     /\ op = "cnv_preprocess" => \A i \in 1..Len(arg.data.rows) :
           arg.data.rows[i]["cnv_type"] \in {arg.gain_value, arg.loss_value}
     /\ \/ \A l \in Range(InputLabels) : StartsWith(l, LowerPrefix)
        \/ \A l \in Range(InputLabels) : StartsWith(l, UpperPrefix)) =>
        /\ ret.err = "none"
        /\ \A l \in ChromosomeNameSet :
              Count(OutputLabels, l)
                  = Count([i \in 1..Len(InputLabels) |-> Unprefixed(InputLabels[i])], l)

\* C4: when only some labels carry a prefix, no row is stripped: the output holds
\* the input rows whose unmodified label is canonical
C4_MixedUntouched ==
    (/\ op \in {"copy_number_preprocess", "cnv_preprocess"}
     /\ arg.layout \in {"window", "point"}
     /\ op = "cnv_preprocess" => \A i \in 1..Len(arg.data.rows) :
           arg.data.rows[i]["cnv_type"] \in {arg.gain_value, arg.loss_value}
     /\ \E l \in Range(InputLabels) : HasPrefix(l)
     /\ ~(\A l \in Range(InputLabels) : StartsWith(l, LowerPrefix))
     /\ ~(\A l \in Range(InputLabels) : StartsWith(l, UpperPrefix))) =>
        /\ ret.err = "none"
        /\ \A l \in ChromosomeNameSet \cup Range(OutputLabels) :
              Count(OutputLabels, l) = Count(InputLabels, l)

\* the mixed input ["chr1", "2"] comes out as ["2"]
C4_Witness ==
    /\ op = "copy_number_preprocess"
    /\ InputLabels = << <<"c", "h", "r", "1">>, <<"2">> >>
    /\ ret.err = "none"
    /\ OutputLabels = << <<"2">> >>

\* C5: copy_number_preprocess applied to its own output returns the same table:
\* the same columns, and the same rows in the same order
C5_Idempotent ==
    op = "copy_number_preprocess_again" =>
        /\ ret.err = "none"
        /\ ret.cols = arg.data.cols
        /\ ret.rows = arg.data.rows

\* C6: in chromosome-level mode, on a table without start and end columns,
\* copy_number_preprocess succeeds, its output has neither column, and its rows
\* are in chromosome rank order
C6_ChromosomeLevel ==
    (/\ op = "copy_number_preprocess"
     /\ arg.layout = "chromosome"
     /\ ~(\E l \in Range(InputLabels) : HasPrefix(l))) =>
        /\ ret.err = "none"
        /\ "start" \notin ColSet(ret)
        /\ "end" \notin ColSet(ret)
        /\ \A i \in 1..(Len(ret.rows) - 1) :
              CanonicalRank(ret.rows[i]["chr"]) <= CanonicalRank(ret.rows[i + 1]["chr"])

\* the region keys of an object, row by row
KeySeq(o) ==
    [k \in 1..Len(o.data.rows) |->
        IF o.class = "CopyNumberWindow"
        THEN <<o.data.rows[k]["chr"], o.data.rows[k]["start"], o.data.rows[k]["end"]>>
        ELSE <<o.data.rows[k]["chr"]>>]

\* the consecutive pairs of the inputs of mean whose region keys differ
InconsistentPairs ==
    {i \in 1..(Len(arg.copy_numbers) - 1) :
        KeySeq(arg.copy_numbers[i]) # KeySeq(arg.copy_numbers[i + 1])}

\* C7: on tables of one kind with identical region keys, mean returns a table of
\* that kind with the first input's region keys, the arithmetic mean of the
\* inputs' copy numbers at each row, and that mean rounded to the nearest integer
C7_Mean ==
    (op = "mean" /\ InconsistentPairs = {}) =>
        /\ ret.status = "ok"
        /\ ret.obj.class = arg.class
        /\ KeySeq(ret.obj) = KeySeq(arg.copy_numbers[1])
        /\ \A k \in 1..Len(ret.obj.data.rows) :
              LET r == ret.obj.data.rows[k]
                  n == Len(arg.copy_numbers)
              IN  /\ n * r["copy_number"]
                        = SumSeq([i \in 1..n |->
                                     arg.copy_numbers[i].data.rows[k]["copy_number"]])
                  /\ 2 * (Scale * r["integer_copy_number"] - r["copy_number"]) <= Scale
                  /\ 2 * (r["copy_number"] - Scale * r["integer_copy_number"]) <= Scale

\* C8: when a consecutive pair of inputs is inconsistent, mean raises a value
\* error naming the first such pair (i, i+1), for either kind of table
C8_MeanRaises ==
    (op = "mean" /\ InconsistentPairs # {}) =>
        LET i == CHOOSE j \in InconsistentPairs : \A k \in InconsistentPairs : j <= k
        IN  /\ ret.status = "raise"
            /\ ret.err = "ValueError"
            /\ ret.pair = <<i - 1, i>>

\* C9: region_consistency_check is true exactly when the region keys of the two
\* tables are equal row for row; copy numbers play no part
C9_RegionConsistency ==
    op = "region_consistency_check" => (ret <=> KeySeq(arg.x) = KeySeq(arg.y))

\* two window tables of two rows with the same keys and different copy numbers
\* are consistent
C9_Witness ==
    /\ op = "region_consistency_check"
    /\ arg.class = "CopyNumberWindow"
    /\ Len(arg.x.data.rows) = 2
    /\ KeySeq(arg.x) = KeySeq(arg.y)
    /\ arg.x.data.rows[1]["copy_number"] # arg.y.data.rows[1]["copy_number"]
    /\ ret = TRUE

\* C10: correlation_coefficient is offered by the package for window-level and
\* for chromosome-level tables: on consistent inputs it returns the coefficient of
\* the two whole copy_number columns, on inconsistent inputs it raises
C10_CorrelationOffered ==
    /\ op = "import" => ret.status = "ok"
    /\ op = "correlation_coefficient" =>
          IF KeySeq(arg.x) = KeySeq(arg.y)
          THEN /\ ret.status = "ok"
               /\ Len(ret.copy_number_x) = Len(arg.x.data.rows)
               /\ Len(ret.copy_number_y) = Len(arg.y.data.rows)
          ELSE ret.status = "raise"

\* the pairs (i, j) of a row of the reference table and a row of the evaluated
\* table that carry the same region key
MatchedRows == {h \in (1..Len(arg.x.data.rows)) \X (1..Len(arg.y.data.rows)) :
                   KeySeq(arg.x)[h[1]] = KeySeq(arg.y)[h[2]]}

\* the values a column takes in the two tables of a call
ValuesOf(col) ==
    {arg.x.data.rows[i][col] : i \in 1..Len(arg.x.data.rows)}
        \cup {arg.y.data.rows[j][col] : j \in 1..Len(arg.y.data.rows)}

\* C11: accuracy_score, recall_score and precision_score raise no error and are
\* taken of exactly the pairs (integer_copy_number_true, integer_copy_number_pred)
\* of rows whose region keys occur in both tables; a row whose key the other table
\* lacks gives no pair
C11_ScoresOverMatched ==
    op \in ScoreMetrics =>
        /\ ret.status = "ok"
        /\ Len(ret.y_true) = Len(ret.y_pred)
        /\ \A t, p \in ValuesOf("integer_copy_number") :
              Cardinality({k \in 1..Len(ret.y_true) : ret.y_true[k] = t /\ ret.y_pred[k] = p})
                  = Cardinality({h \in MatchedRows :
                                    /\ arg.x.data.rows[h[1]]["integer_copy_number"] = t
                                    /\ arg.y.data.rows[h[2]]["integer_copy_number"] = p})
        /\ op = "accuracy_score" =>
              /\ ret.result.total = Cardinality(MatchedRows)
              /\ ret.result.hits
                    = Cardinality({h \in MatchedRows :
                                      arg.x.data.rows[h[1]]["integer_copy_number"]
                                          = arg.y.data.rows[h[2]]["integer_copy_number"]})

\* a reference table of two regions against a table holding one of them, with
\* another copy number: one pair, and no hit
C11_Witness ==
    /\ op = "accuracy_score"
    /\ arg.class = "CopyNumberWindow"
    /\ Len(arg.x.data.rows) = 2
    /\ KeySeq(arg.x)[1] # KeySeq(arg.x)[2]
    /\ Len(arg.y.data.rows) = 1
    /\ ret.status = "ok"
    /\ Len(ret.y_true) = 1
    /\ ret.result = [hits |-> 0, total |-> 1]

\* C12: difference_std of two tables with exactly one matched region returns a
\* float, which is 0 (or NaN) for the one difference
C12_DifferenceStdOne ==
    (op = "difference_std" /\ Cardinality(MatchedRows) = 1) =>
        /\ ret.status = "ok"
        /\ ret.result.num = 0

\* C13: every transformation hands back the kind of table it was given:
\* copy_number_preprocess, cnv_preprocess, chromosome_copy_number,
\* manhattan_plot_preprocess and mean return an eager table for eager input and a
\* lazy table for lazy input
C13_KindPreserved ==
    /\ (/\ op \in PreprocessOps \cup {"chromosome_copy_number", "manhattan_plot_preprocess"}
        /\ ~ret.raised) => ret.kind = arg.data.kind
    /\ (op = "mean" /\ ret.status = "ok") =>
          ret.obj.data.kind = arg.copy_numbers[1].data.kind

\* the copy numbers of the windows of a chromosome in the table handed to the
\* reducer
WindowValues(chr) ==
    LET rows == arg.data.rows
        on   == {i \in 1..Len(rows) : rows[i]["chr"] = chr}
    IN  [k \in 1..Cardinality(on) |-> KeepRows(rows, on)[k]["copy_number"]]

\* C14: chromosome_copy_number of a normalized window table has one row per
\* chromosome of the input, in canonical order, whose copy_number is the mean of
\* that chromosome's windows (to the nearest Float32) and whose
\* integer_copy_number is that mean rounded to the nearest integer
C14_Reducer ==
    op = "chromosome_copy_number" =>
        /\ ret.err = "none"
        /\ ret.cols = <<"chr", "copy_number", "integer_copy_number">>
        /\ {ret.rows[k]["chr"] : k \in 1..Len(ret.rows)}
              = {arg.data.rows[i]["chr"] : i \in 1..Len(arg.data.rows)}
        /\ \A k \in 1..(Len(ret.rows) - 1) :
              CanonicalRank(ret.rows[k]["chr"]) < CanonicalRank(ret.rows[k + 1]["chr"])
        /\ \A k \in 1..Len(ret.rows) :
              LET r == ret.rows[k]
                  w == WindowValues(r["chr"])
                  n == Len(w)
                  e == n * r["copy_number"] - SumSeq(w)
              IN  /\ 2 * e <= n * F32Step
                  /\ -2 * e <= n * F32Step
                  /\ 2 * (Scale * r["integer_copy_number"] - r["copy_number"]) <= Scale
                  /\ 2 * (r["copy_number"] - Scale * r["integer_copy_number"]) <= Scale

\* the windows 1.0, 1.0 and 3.0 of one chromosome give the copy number 5/3 and
\* the integer copy number 2
C14_Witness ==
    /\ op = "chromosome_copy_number"
    /\ Len(arg.data.rows) = 3
    /\ \E p \in RowOrders(3) :
          [i \in 1..3 |-> arg.data.rows[p[i]]["copy_number"]] = <<Scale, Scale, 3 * Scale>>
    /\ Len(ret.rows) = 1
    /\ 3 * ret.rows[1]["copy_number"] = 5 * Scale
    /\ ret.rows[1]["integer_copy_number"] = 2

\* the rows of the table handed to cnv_preprocess whose cnv_type is v
TypeCount(rows, s, v) ==
    Cardinality({i \in 1..Len(rows) : rows[i]["start"] = s /\ rows[i]["cnv_type"] = v})

\* C15: cnv_preprocess fails when a row of the input carries a cnv_type other
\* than gain_value and loss_value; in a table it returns, every cnv_type is "gain"
\* or "loss", and the rows that are "gain" (or "loss") come from rows that carried
\* gain_value (or loss_value)
C15_StrictMapping ==
    op = "cnv_preprocess" =>
        LET in     == arg.data.rows
            Start(i) == in[i][arg.start_col]
            known  == \A i \in 1..Len(in) :
                          in[i]["cnv_type"] \in {arg.gain_value, arg.loss_value}
        IN  /\ ~known => ret.err # "none"
            /\ ret.err = "none" =>
                  /\ \A k \in 1..Len(ret.rows) : ret.rows[k]["cnv_type"] \in {"gain", "loss"}
                  /\ \A s \in RawStarts :
                        /\ TypeCount(ret.rows, s, "gain")
                              <= Cardinality({i \in 1..Len(in) :
                                    Start(i) = s /\ in[i]["cnv_type"] = arg.gain_value})
                        /\ TypeCount(ret.rows, s, "loss")
                              <= Cardinality({i \in 1..Len(in) :
                                    Start(i) = s /\ in[i]["cnv_type"] = arg.loss_value})
                  /\ (\A i \in 1..Len(in) : in[i][arg.chr_col] \in ChromosomeNameSet) =>
                        Len(ret.rows) = Len(in)

\* a table with a "gain" row on chromosome "1" and a "dup" row on "MT", mapped
\* with the labels "gain" and "loss", fails although the filter would drop the
\* "dup" row
C15_Witness ==
    /\ op = "cnv_preprocess"
    /\ Len(arg.data.rows) = 2
    /\ arg.gain_value = "gain"
    /\ arg.data.rows[1]["cnv_type"] = "gain"
    /\ arg.data.rows[2]["cnv_type"] = "dup"
    /\ arg.data.rows[1][arg.chr_col] = <<"1">>
    /\ arg.data.rows[2][arg.chr_col] = <<"M", "T">>
    /\ ret.err = "InvalidOperationError"

\* C16: constructing a Cnv from a table with chromosome, start, end and type
\* columns whose types are all gain_value or loss_value succeeds, and data is the
\* normalized table: columns chr, start, end, cnv_type, canonical chromosomes
\* only, sorted by chromosome rank and then start
C16_CnvConstructed ==
    (/\ op = "Cnv"
     /\ \A i \in 1..Len(arg.data.rows) :
           arg.data.rows[i]["cnv_type"] \in {arg.gain_value, arg.loss_value}) =>
        /\ ret.data.err = "none"
        /\ ColSet(ret.data) = {"chr", "start", "end", "cnv_type"}
        /\ \A k \in 1..Len(ret.data.rows) : ret.data.rows[k]["chr"] \in ChromosomeNameSet
        /\ \A k \in 1..(Len(ret.data.rows) - 1) :
              SortKeyLessEq(ret.data.rows[k], ret.data.rows[k + 1])

\* the midpoints of the windows of the plotted object on the chromosome chr, in
\* the order of its data
PlottedPositions(chr) ==
    LET rows == arg.obj.data.rows
        on   == KeepRows(rows, {i \in 1..Len(rows) : rows[i]["chr"] = chr})
    IN  [k \in 1..Len(on) |-> (on[k]["start"] + on[k]["end"]) \div 2]

\* C17: a position converter manhattan_plot returns has one row per chromosome
\* with windows, in the canonical order; the first offset is 0, every later one
\* is the sum of the greatest positions of the chromosomes before it, and the
\* offsets never decrease
C17_PositionConverter ==
    (op = "manhattan_plot" /\ ret.status = "ok") =>
        LET pc      == ret.position_converter
            plotted == {c \in ChromosomeNameSet : PlottedPositions(c) # <<>>}
        IN  /\ Len(pc) = Cardinality(plotted)
            /\ \A i \in 1..Len(pc) :
                  /\ pc[i].chr = CHROMOSOME_NAMES[i]
                  /\ pc[i].chr \in plotted
                  /\ pc[i].position_diff =
                        SumSeq([j \in 1..(i - 1) |->
                                   Max(Range(PlottedPositions(CHROMOSOME_NAMES[j])))])
            /\ pc[1].position_diff = 0
            /\ \A i \in 1..(Len(pc) - 1) : pc[i].position_diff <= pc[i + 1].position_diff

\* all 24 chromosomes plotted, windows (0, 2) and (2, 4) on chromosome "1": the
\* offset of "2" is 3 and that of "3" is 4
C17_Witness ==
    /\ op = "manhattan_plot"
    /\ ret.status = "ok"
    /\ Len(ret.position_converter) = 24
    /\ PlottedPositions(<<"1">>) = <<1, 3>>
    /\ ret.position_converter[2].position_diff = 3
    /\ ret.position_converter[3].position_diff = 4

\* C18: manhattan_plot returns a plot only when, for every trace, the
\* differences x - position over its points are one constant and that constant
\* is the summed length of the chromosomes before it
C18_DeviationRaises ==
    (op = "manhattan_plot" /\ ret.status = "ok") =>
        \A i \in 1..Len(ret.figure) :
            LET x  == ret.figure[i].x
                bp == PlottedPositions(CHROMOSOME_NAMES[i])
            IN  /\ Len(x) = Len(bp)
                /\ \A k \in 1..Len(x) :
                      x[k] - bp[k] = SumSeq([j \in 1..(i - 1) |->
                                        Max(Range(PlottedPositions(CHROMOSOME_NAMES[j])))])

NoEffectOps ==
    {"region_consistency_check", "accuracy_score", "recall_score", "precision_score",
     "difference_std", "correlation_coefficient", "mean", "copy_number_preprocess",
     "cnv_preprocess", "chromosome_copy_number"}

Uncovered(i) ==
    LET trace == arg.self.figure[i]
        chr   == CHROMOSOME_NAMES[ParseInt(RemovePrefix(trace.name, <<"C", "h", "r">>))]
        pc    == arg.self.position_converter
        segs  == arg.copy_number.data.rows
        Offset(c) == pc[CHOOSE j \in 1..Len(pc) : pc[j].chr = c].position_diff
    IN  {v \in Min(Range(trace.x))..Max(Range(trace.x)) :
            \A k \in 1..Len(segs) :
                segs[k]["chr"] = chr =>
                    (v < segs[k]["start"] + Offset(chr) \/ v > segs[k]["end"] + Offset(chr))}

\* the indices of the background traces returned for the trace at index i
BackgroundOf(i) ==
    LET own == <<"n", "o", "n", "_", "c", "n", "v", "_">>
                   \o RemovePrefix(arg.self.figure[i].name, <<"C", "h", "r">>) \o <<"_">>
    IN  {k \in 1..Len(ret.non_cnv_traces) : StartsWith(ret.non_cnv_traces[k].name, own)}

\* C20: for every trace of the plot, the background traces cnv_line_traces
\* returns are the maximal runs of the integers of the trace's x-range that no
\* CNV segment on its chromosome covers: each uncovered integer lies in exactly
\* one of them, no covered integer lies in any, and no two of them touch
C20_BackgroundIntervals ==
    (op = "cnv_line_traces" /\ ret.status = "ok") =>
        \A i \in 1..Len(arg.self.figure) :
            LET free == Uncovered(i)
                X(k) == ret.non_cnv_traces[k].x
            IN  /\ \A k \in BackgroundOf(i) :
                      /\ X(k)[1] <= X(k)[2]
                      /\ X(k)[1]..X(k)[2] \subseteq free
                      /\ (X(k)[1] - 1) \notin free
                      /\ (X(k)[2] + 1) \notin free
                /\ \A v \in free :
                      Cardinality({k \in BackgroundOf(i) : X(k)[1] <= v /\ v <= X(k)[2]}) = 1

\* C21: for a strictly ascending sequence, integers_to_intervals returns
\* intervals with left <= right, each at least 2 beyond the one before, whose
\* union is the set of the integers given; [1,2,3,5,6,9] gives
\* [[1,3],[5,6],[9,9]] and the empty sequence gives []
C21_MaximalIntervals ==
    op = "integers_to_intervals" =>
        /\ \A k \in 1..Len(ret) : ret[k][1] <= ret[k][2]
        /\ \A k \in 1..(Len(ret) - 1) : ret[k + 1][1] - ret[k][2] >= 2
        /\ UNION {ret[k][1]..ret[k][2] : k \in 1..Len(ret)} = Range(arg.integers)
        /\ arg.integers = <<1, 2, 3, 5, 6, 9>> => ret = << <<1, 3>>, <<5, 6>>, <<9, 9>> >>
        /\ arg.integers = <<>> => ret = <<>>

C21_Witness ==
    /\ op = "integers_to_intervals"
    /\ arg.integers = <<1, 2, 3, 5, 6, 9>>
    /\ ret = << <<1, 3>>, <<5, 6>>, <<9, 9>> >>

\* the y-values handed to normal_chr_copy_number that lie from the lower
\* cutoff to the upper: the cutoffs are the values at the ranks
\* floor((n - 1) / 4) and ceil(3 (n - 1) / 4), counted from 0 in ascending order
Retained ==
    LET y  == arg.copy_numbers
        n  == Len(y)
        Below(v)   == Cardinality({i \in 1..n : y[i] < v})
        UpTo(v)    == Cardinality({i \in 1..n : y[i] <= v})
        IsAt(v, r) == Below(v) <= r /\ r < UpTo(v)
    IN  {i \in 1..n :
            \E lo, hi \in Range(y) :
                /\ IsAt(lo, (n - 1) \div 4)
                /\ IsAt(hi, (3 * (n - 1) + 3) \div 4)
                /\ lo <= y[i] /\ y[i] <= hi}

CanonicalInput ==
    {i \in 1..Len(arg.data.rows) : arg.data.rows[i]["chr"] \in ChromosomeNameSet}

\* a returned table holds the canonical rows of the input, each once, with the
\* floor midpoint as position and the rank as chr_number, in ascending order of
\* (chr_number, position)
PreprocessedRows ==
    /\ ~ret.raised
    /\ ret.err = "none"
    /\ Len(ret.rows) = Cardinality(CanonicalInput)
    /\ \E p \in [1..Len(ret.rows) -> CanonicalInput] :
          /\ \A j, k \in 1..Len(ret.rows) : p[j] = p[k] => j = k
          /\ \A k \in 1..Len(ret.rows) :
                LET in == arg.data.rows[p[k]]
                    r  == ret.rows[k]
                IN  /\ \A c \in DOMAIN in : r[c] = in[c]
                    /\ r["position"] = (in["start"] + in["end"]) \div 2
                    /\ r["chr_number"] = CanonicalRank(in["chr"])
    /\ \A k \in 1..(Len(ret.rows) - 1) :
          \/ ret.rows[k]["chr_number"] < ret.rows[k + 1]["chr_number"]
          \/ /\ ret.rows[k]["chr_number"] = ret.rows[k + 1]["chr_number"]
             /\ ret.rows[k]["position"] <= ret.rows[k + 1]["position"]

\* C23: manhattan_plot_preprocess on a normalized window table returns the
\* table's rows on canonical chromosomes with position = (start + end) // 2 and
\* chr_number = the rank of chr attached, sorted by (chr_number, position)
C23_Preprocessed ==
    op = "manhattan_plot_preprocess" => PreprocessedRows

\* the canonical chromosomes the plotted object has no window on
Unplotted == {c \in ChromosomeNameSet : PlottedPositions(c) = <<>>}

\* C24: when exactly one canonical chromosome has no data and the plotting
\* library lays the 23 traces out as expected, manhattan_plot succeeds, and the
\* tick label and the converter row of every trace name the chromosome whose
\* points the trace holds
C24_OneChromosomeMissing ==
    (/\ op = "manhattan_plot"
     /\ arg.set = PlotAttributes
     /\ arg.dev.kind = "none"
     /\ Cardinality(Unplotted) = 1) =>
        /\ ret.status = "ok"
        /\ Len(ret.figure) = 23
        /\ \A i \in 1..23 :
              LET chr == CHROMOSOME_NAMES[ParseInt(RemovePrefix(ret.figure[i].name,
                                                               <<"C", "h", "r">>))]
              IN  /\ ret.ticktext[i] = chr
                  /\ ret.position_converter[i].chr = chr

\* C25: in a plot manhattan_plot returns, the major tick of every trace is the
\* midpoint (min_x + max_x) // 2 of the trace's own x, and the minor ticks are
\* the least and the greatest x of every trace
C25_TicksOfOwnRange ==
    (op = "manhattan_plot" /\ ret.status = "ok") =>
        /\ \A i \in 1..Len(ret.figure) :
              ret.tickvals[i] =
                  (Min(Range(ret.figure[i].x)) + Max(Range(ret.figure[i].x))) \div 2
        /\ Range(ret.minor_tickvals) =
              UNION {{Min(Range(ret.figure[i].x)), Max(Range(ret.figure[i].x))} :
                        i \in 1..Len(ret.figure)}

\* C26: region_consistency_check holds of an object and itself, holds both ways
\* round or neither, and when it holds for every consecutive pair of the objects
\* handed to mean it holds for every pair of them
C26_SequentialCheckSuffices ==
    /\ op = "region_consistency_check" =>
          /\ RegionConsistencyCheck(arg.class, arg.x, arg.x)
          /\ RegionConsistencyCheck(arg.class, arg.y, arg.y)
          /\ ret = RegionConsistencyCheck(arg.class, arg.y, arg.x)
    /\ op = "mean" =>
          LET n == Len(arg.copy_numbers)
          IN  (\A i \in 1..(n - 1) :
                  RegionConsistencyCheck(arg.class, arg.copy_numbers[i],
                                         arg.copy_numbers[i + 1]))
              => \A i, j \in 1..n :
                    RegionConsistencyCheck(arg.class, arg.copy_numbers[i],
                                           arg.copy_numbers[j])

\* mean of three objects on one region with the copy numbers 1.0, 2.0 and 3.0:
\* the pairs (1, 2) and (2, 3) are checked, and the pair (1, 3) is consistent
C26_Witness ==
    /\ op = "mean"
    /\ Len(arg.copy_numbers) = 3
    /\ ret.status = "ok"
    /\ \A i \in 1..3 : Len(arg.copy_numbers[i].data.rows) = 1
    /\ arg.copy_numbers[1].data.rows[1]["copy_number"] = Scale
    /\ arg.copy_numbers[3].data.rows[1]["copy_number"] = 3 * Scale
    /\ RegionConsistencyCheck(arg.class, arg.copy_numbers[1], arg.copy_numbers[3])

\* C27: a CNV segment takes integers only out of the background of its own
\* chromosome: for every trace of the plot whose chromosome carries no segment,
\* a chromosome whose rank is a prefix of the segment's rank included, the
\* background traces are those of the trace's whole x-range, as they are when
\* no segment is given
C27_OtherChromosomesUntouched ==
    (op = "cnv_line_traces" /\ ret.status = "ok") =>
        \A i \in 1..Len(arg.self.figure) :
            LET trace == arg.self.figure[i]
                chr   == CHROMOSOME_NAMES[ParseInt(RemovePrefix(trace.name, <<"C", "h", "r">>))]
                segs  == arg.copy_number.data.rows
                whole == Min(Range(trace.x))..Max(Range(trace.x))
            IN  (\A k \in 1..Len(segs) : segs[k]["chr"] # chr) =>
                    {ret.non_cnv_traces[k].x : k \in BackgroundOf(i)}
                        = Range(IntegersToIntervals(Ascending(whole)))

\* C28: the table of the object mean returns has exactly the column names of
\* the first table given, for eager and lazy tables of either class
C28_MeanKeepsColumns ==
    (op = "mean" /\ ret.status = "ok") =>
        Range(ret.obj.data.cols) = Range(arg.copy_numbers[1].data.cols)

\* C29: accuracy_score, recall_score, precision_score and difference_std hand
\* their metric no more aligned pairs than either table has rows, also when a
\* table holds one region in several rows
C29_PairsWithinRows ==
    (op \in ScoreMetrics \cup {"difference_std"} /\ ret.status = "ok") =>
        /\ Len(ret.y_true) <= Len(arg.x.data.rows)
        /\ Len(ret.y_true) <= Len(arg.y.data.rows)

\* C30: after any sequence of collect() and lazy() calls on an object, its
\* table is eager when the last call was collect() and lazy when it was lazy(),
\* the rows and the columns are those before the sequence, every call has
\* returned the object itself, and a call that repeats the one before leaves
\* the object as it was
C30_CollectLazySequences ==
    op \in {"collect", "lazy"} =>
        LET n == Len(arg.calls)
        IN  /\ ret.status = "ok"
            /\ ret.returned = "self"
            /\ after.x.data.kind = (IF op = "collect" THEN "eager" ELSE "lazy")
            /\ after.x.data.rows = arg.x.data.rows
            /\ after.x.data.cols = arg.x.data.cols
            /\ after.x.class = arg.x.class
            /\ (n >= 2 /\ arg.calls[n] = arg.calls[n - 1]) => after.x = after.prev

\* collect(), lazy(), lazy() on an object built on a lazy table of two rows
C30_Witness ==
    /\ op = "lazy"
    /\ arg.calls = <<"collect", "lazy", "lazy">>
    /\ arg.x.data.kind = "lazy"
    /\ Len(arg.x.data.rows) = 2
    /\ after.x = arg.x
    /\ after.x = after.prev

====
